---- MODULE Spec2Model ----
(***************************************************************************)
(* Model of the game session state machine of the baccarat bot             *)
(* (src/main.py).  One group chat (GROUP_CHAT_ID) hosts the game; its       *)
(* session is the Firestore document games/<chat_id>.                       *)
(*                                                                         *)
(* Handlers are coroutines of one asyncio event loop (every webhook         *)
(* request awaits application.process_update).  The Firestore and web3      *)
(* clients are synchronous, so a handler only yields to other handlers at   *)
(* a Telegram API call (reply_text, send_message, pin_chat_message,         *)
(* delete_message).  Each action below is the code of one handler between   *)
(* two such calls; what a handler still has to do after a call is a         *)
(* record in `tasks`, holding the local variables it will read.             *)
(*                                                                         *)
(* A handler that rejects its input replies and returns with the session,   *)
(* the wallets and the jobs as they were: that is a stuttering step.  The   *)
(* ...Reply operators give the outcome of a handler's checks, in the order  *)
(* of the code, and the action is the handler's course when they pass.      *)
(*                                                                         *)
(* Bet amounts are in milli-ETH, amounts of the Ledger in micro-ETH.  The    *)
(* Store and the chat transport answer every call (no exception), but for   *)
(* the wallet lookup of a join, which may raise; the Ledger may refuse or   *)
(* raise at every payout.                                                   *)
(*                                                                         *)
(* Spec is the bot from its start.  SettleSpec starts where                 *)
(* proceed_to_results has sent its first messages, for sessions with the    *)
(* bets, cards and hands that Spec does not draw.  PickSpec starts at the   *)
(* card selection of a session, StoreSpec is bet_ with a Store whose        *)
(* writes may fail, and EngineSpec calls the functions of the card engine   *)
(* on all their arguments.                                                  *)
(***************************************************************************)
EXTENDS Integers, Sequences, FiniteSets, TLC

\* ---------------------------------------------------------------- bounds
NumUsers == 3
MaxTasks == 1
MaxJobs == 1
MaxJoins == 2
MaxPicks == 2

\* ------------------------------------------------------ program constants
CREATOR_ID == 1
MAX_BET == 100
TEST_CAPACITY == 2
INTERACTIVE_CAPACITY == 4
SIMPLE_CAPACITY == 8
TARGET_MIN == 1
TARGET_MAX == 9

Users == 1..NumUsers

\* ----------------------------------------------------------------- inputs
\* callback data bet_<type>_<chat>: the three Simple buttons and the
\* Interactive confirm button
BetTypes == {"player"}
\* callback data card_select_<card>_<chat>
CardInputs == {"A", "11"}
\* bet-amount texts, with the float each parses to in milli-ETH
\* (-1: float() raises ValueError, NaN: float("nan"))
TextInputs == {"abc", "0", "0.25", "100.5", "nan"}
\* targets random.randint(1, 9) draws in this model
TargetDraws == {TARGET_MIN, TARGET_MAX}
\* ranks deal_card() draws from in this model
DealRanks == {9}

\* users that created a wallet before the first event, and users that send
\* /start to the group
InitialWallets == {1, 2}
\* outcomes of the wallet lookup of a join: the Store answers, or it raises
WalletLookups == {"ok", "error"}
Starters == {2}
\* what the Ledger does with the withdrawal of one recipient: it is mined,
\* the contract balance is too low, the transaction is rejected or times
\* out, or a call made before the transaction is sent raises
LedgerOutcomes == {"ok", "low", "rejected", "raises"}

VARIABLES game, wallets, jobs, tasks, sent

vars == <<game, wallets, jobs, tasks, sent>>

\* ------------------------------------------------------------ card engine
card_value(card) ==
    IF card = 1 THEN 1 ELSE IF card >= 10 THEN 0 ELSE card

RECURSIVE SumValues(_)
SumValues(cards) ==
    IF cards = <<>> THEN 0 ELSE card_value(Head(cards)) + SumValues(Tail(cards))

\* hand_total without its "% 10"
hand_total_NoMod(cards) == SumValues(cards)

hand_total(cards) == SumValues(cards) % 10

\* the banker's rule without "and player_third != 8"
BankerDrawsOnThird_NoEight(banker_total, player_third) ==
    \/ banker_total <= 3
    \/ banker_total = 4 /\ player_third \in 2..7
    \/ banker_total = 5 /\ player_third \in 4..7
    \/ banker_total = 6 /\ player_third \in 6..7

\* the banker's rule when the player holds three cards
BankerDrawsOnThird(banker_total, player_third) ==
    \/ banker_total <= 2
    \/ banker_total = 3 /\ player_third # 8
    \/ banker_total = 4 /\ player_third \in 2..7
    \/ banker_total = 5 /\ player_third \in 4..7
    \/ banker_total = 6 /\ player_third \in 6..7

\* baccarat_third_card with the two cards deal_card() may return, d1 for the
\* player and d2 for the banker
baccarat_third_card(player_cards, banker_cards, d1, d2) ==
    LET player_total == hand_total(player_cards)
        banker_total == hand_total(banker_cards)
    IN  IF player_total >= 8 \/ banker_total >= 8
        THEN [pc |-> player_cards, bc |-> banker_cards,
              player_draw |-> FALSE, banker_draw |-> FALSE]
        ELSE LET player_draw == player_total <= 5
                 pc3 == IF player_draw THEN Append(player_cards, d1) ELSE player_cards
                 banker_draw ==
                     IF Len(pc3) = 3
                     THEN BankerDrawsOnThird(banker_total, card_value(pc3[3]))
                     ELSE banker_total <= 5
                 bc3 == IF banker_draw THEN Append(banker_cards, d2) ELSE banker_cards
             IN  [pc |-> pc3, bc |-> bc3,
                  player_draw |-> player_draw, banker_draw |-> banker_draw]

determine_winner(player_cards, banker_cards) ==
    LET player_total == hand_total(player_cards)
        banker_total == hand_total(banker_cards)
    IN  IF player_total > banker_total THEN "Player"
        ELSE IF banker_total > player_total THEN "Banker"
        ELSE "Tie"

Abs(x) == IF x < 0 THEN -x ELSE x

\* determine_pvp_winner without "all(total == 0 ...)"
determine_pvp_winner_NoZeroRule(card_choices, target_number) ==
    LET chosen == {u \in Users : card_choices[u] # 0}
        totals == [u \in chosen |-> card_value(card_choices[u]) % 10]
        distances == [u \in chosen |-> Abs(totals[u] - target_number)]
    IN  {u \in chosen : \A v \in chosen : distances[u] <= distances[v]}

\* card_choices maps every user to the rank chosen, 0 for a user without an
\* entry; the winners are returned as a set of user ids
determine_pvp_winner(card_choices, target_number) ==
    LET chosen == {u \in Users : card_choices[u] # 0}
        totals == [u \in chosen |-> card_value(card_choices[u]) % 10]
    IN  IF chosen = {} \/ \A u \in chosen : totals[u] = 0
        THEN {}
        ELSE LET distances == [u \in chosen |-> Abs(totals[u] - target_number)]
                 min_distance ==
                     CHOOSE d \in {distances[u] : u \in chosen} :
                         \A u \in chosen : d <= distances[u]
             IN  {u \in chosen : distances[u] = min_distance}

\* ------------------------------------------------------------------ store
\* A bet of player_bets; NoBet stands for a user without an entry
NoBet == [choice |-> "absent", amount |-> -1]

\* The document games/<chat_id>.  exists = FALSE: no document (get_game
\* returns None).  update_game merges, so a document may hold only some of
\* the fields; a field that is missing reads as game.get() returns it:
\*   status, game_mode "none" (None), test_mode 0, bet_amount -1 (None),
\*   players <<>>, player_bets and card_choices empty, creator_id 0 (None),
\*   message_id 0 (None), target_number 0 (read only with status written
\*   by the same update_game call).  bet_amount 0 is the string "0".
\* player_count is written with players and only ever printed.
NoGame ==
    [exists |-> FALSE, status |-> "none", game_mode |-> "none", test_mode |-> 0,
     bet_amount |-> -1, players |-> <<>>,
     player_bets |-> [u \in Users |-> NoBet],
     card_choices |-> [u \in Users |-> 0],
     game_state |-> <<>>, target_number |-> 0, creator_id |-> 0, message_id |-> 0]

\* doc_ref.set(kwargs, merge=True): creates the document when there is none
update_game(g, kwargs) ==
    [f \in DOMAIN g |->
        IF f = "exists" THEN TRUE
        ELSE IF f \in DOMAIN kwargs THEN kwargs[f] ELSE g[f]]

\* game_data of start and new_game_data of proceed_to_results
NewGameData(creator) ==
    [message_id |-> 1, creator_id |-> creator, bet_amount |-> 0, players |-> <<>>,
     test_mode |-> 0, status |-> "waiting",
     player_bets |-> [u \in Users |-> NoBet], game_state |-> <<>>,
     card_choices |-> [u \in Users |-> 0],
     game_mode |-> "interactive", target_number |-> 0]

\* max_players
Capacity(g) ==
    IF g.test_mode # 0 THEN TEST_CAPACITY
    ELSE IF g.game_mode = "interactive" THEN INTERACTIVE_CAPACITY
    ELSE SIMPLE_CAPACITY

Range(seq) == {seq[i] : i \in 1..Len(seq)}
Bettors(g) == {u \in Users : g.player_bets[u] # NoBet}
Choosers(g) == {u \in Users : g.card_choices[u] # 0}
Min(a, b) == IF a < b THEN a ELSE b

\* ---------------------------------------------------------------- outbound
\* An outbound notification: its kind and the target number its text holds
\* (0: none).  Replies that only report a rejection are not recorded.  A
\* notice of settlement is sent to one user, for one amount of the Ledger.
Msg(kind, target) == [kind |-> kind, target |-> target, user |-> 0, amount |-> 0]
Notice(kind, user, amount) ==
    [kind |-> kind, target |-> 0, user |-> user, amount |-> amount]

WelcomeMsgs == {Msg("welcome", 0)}
LobbyMsgs == {Msg("lobby", 0)}
BetPromptMsgs == {Msg("bet_prompt", 0)}
GameReadyMsgs == {Msg("game_ready", 0)}
CardPhaseMsgs(target_number) == {Msg("bets_placed", 0), Msg("card_prompt", 0)}
HandMsgs == {Msg("final_hands", 0), Msg("hand_update", 0)}
PvpResultMsgs(target_number) ==
    {Msg("results", target_number), Msg("target_update", target_number)}
GameOverMsgs == {Msg("game_over", 0)}
TimeoutMsgs == {Msg("timed_out", 0)}
PayoutErrorMsgs == {Msg("payout_error", 0)}

\* ------------------------------------------------------------------- tasks
\* What a suspended handler still has to do: k is the place it resumes at,
\* u its user, hit the condition it computed, g its local copy of the
\* session (game, with players, player_bets and card_choices as the handler
\* changed them), pc and bc the hands it dealt.
Task(k, u, hit, g, pc, bc) ==
    [k |-> k, u |-> u, hit |-> hit, g |-> g, pc |-> pc, bc |-> bc]
Plain(k) == Task(k, 0, FALSE, NoGame, <<>>, <<>>)

CanSpawn == Cardinality(tasks) < MaxTasks
TasksAt(k) == {t \in tasks : t.k = k}

\* the handlers of a join in flight; a join may start beside them
JoinTasks == TasksAt("join_message_id") \cup TasksAt("join_betting")
CanSpawnJoin ==
    \/ CanSpawn
    \/ tasks = JoinTasks /\ Cardinality(tasks) < MaxJoins

\* the handlers in flight of the card picks that completed the choices; in
\* free play a card pick may start beside them
PickTasks == {t \in TasksAt("card_chosen") : t.hit}
CanSpawnPick ==
    \/ CanSpawn
    \/ tasks = PickTasks /\ Cardinality(tasks) < MaxPicks /\ game.bet_amount = 0

Init ==
    /\ game = NoGame
    /\ wallets = InitialWallets
    /\ jobs = 0
    /\ tasks = {}
    /\ sent = {}

\* delete_game: the document and the chat's timeout jobs
delete_game ==
    /\ game' = NoGame
    /\ jobs' = 0

\* ------------------------------------------------------------------- start
\* start without its 'status == "waiting"' check
StartReply_NoWaitingCheck(g) ==
    IF g.exists /\ g.status \notin {"waiting", "finished"} THEN "AlreadyRunning"
    ELSE "ok"

\* /start in the group chat
StartReply(g) ==
    IF g.exists /\ g.status \notin {"waiting", "finished"} THEN "AlreadyRunning"
    ELSE IF g.exists /\ g.status = "waiting" THEN "AlreadyInProgress"
    ELSE "ok"

\* start, to the welcome message (reply_text, pin_chat_message).  No code
\* writes status "finished", so a document that passes both checks and is
\* cleaned up first does not occur.
Start(u) ==
    /\ StartReply(game) = "ok"
    /\ CanSpawn
    /\ tasks' = tasks \cup {Task("start_create", u, FALSE, NoGame, <<>>, <<>>)}
    /\ sent' = WelcomeMsgs
    /\ UNCHANGED <<game, wallets, jobs>>

\* start, from update_game(chat_id, **game_data)
StartCreate ==
    \E t \in TasksAt("start_create") :
        /\ game' = update_game(game, NewGameData(t.u))
        /\ tasks' = tasks \ {t}
        /\ sent' = {}
        /\ UNCHANGED <<wallets, jobs>>

\* /start in a private chat: the wallet is created once
StartPrivate(u) ==
    /\ u \notin wallets
    /\ wallets' = wallets \cup {u}
    /\ sent' = {}
    /\ UNCHANGED <<game, jobs, tasks>>

\* ------------------------------------------------- cancel, reset, timeout
\* cancel without its 'user_id != game.get("creator_id")' check
CancelReply_AnyUser(g, u) ==
    IF ~g.exists THEN "NoGame"
    ELSE "ok"

CancelReply(g, u) ==
    IF ~g.exists THEN "NoGame"
    ELSE IF u # g.creator_id THEN "NotCreator"
    ELSE "ok"

\* cancel.  The awaited delete_message between the check and delete_game is
\* not a point of resumption here: the handler deletes whatever it finds.
Cancel(u) ==
    /\ CancelReply(game, u) = "ok"
    /\ delete_game
    /\ sent' = {}
    /\ UNCHANGED <<wallets, tasks>>

\* /reset by the bot owner; delete_game also runs when there is no session
Reset(u) ==
    /\ u = CREATOR_ID
    /\ delete_game
    /\ sent' = {}
    /\ UNCHANGED <<wallets, tasks>>

\* timeout_card_selection without its 'status != "card_selection"' check
Timeout_AnyStatus ==
    /\ jobs > 0
    /\ IF game.exists
       THEN /\ delete_game
            /\ sent' = TimeoutMsgs
       ELSE /\ jobs' = jobs - 1
            /\ sent' = {}
            /\ UNCHANGED game
    /\ UNCHANGED <<wallets, tasks>>

\* timeout_card_selection: a run_once job leaves the queue as it runs, and
\* delete_game removes the chat's other jobs
Timeout ==
    /\ jobs > 0
    /\ IF game.exists /\ game.status = "card_selection"
       THEN /\ delete_game
            /\ sent' = TimeoutMsgs
       ELSE /\ jobs' = jobs - 1
            /\ sent' = {}
            /\ UNCHANGED game
    /\ UNCHANGED <<wallets, tasks>>

\* ------------------------------------------------- lobby buttons and text
\* game_mode_simple, game_mode_interactive
GameMode(mode) ==
    /\ game.exists
    /\ game' = update_game(game, [game_mode |-> mode])
    /\ sent' = {}
    /\ UNCHANGED <<wallets, jobs, tasks>>

LobbyReply(g) ==
    IF ~g.exists THEN "NoGame"
    ELSE IF g.status # "waiting" THEN "AlreadyStarted"
    ELSE "ok"

\* set_bet, to the reply that asks for the amount
SetBet ==
    /\ LobbyReply(game) = "ok"
    /\ CanSpawn
    /\ tasks' = tasks \cup {Plain("set_bet_status")}
    /\ sent' = {}
    /\ UNCHANGED <<game, wallets, jobs>>

\* set_bet, from update_game(chat_id, status="setting_bet")
SetBetStatus ==
    \E t \in TasksAt("set_bet_status") :
        /\ game' = update_game(game, [status |-> "setting_bet"])
        /\ tasks' = tasks \ {t}
        /\ sent' = {}
        /\ UNCHANGED <<wallets, jobs>>

\* free_play, to the new lobby message
FreePlay ==
    /\ LobbyReply(game) = "ok"
    /\ CanSpawn
    /\ game' = update_game(game, [bet_amount |-> 0, status |-> "waiting"])
    /\ tasks' = tasks \cup {Plain("message_id")}
    /\ sent' = LobbyMsgs
    /\ UNCHANGED <<wallets, jobs>>

\* update_game(chat_id, message_id=new_message.message_id), the last line of
\* free_play and handle_message and the line of join before the bet prompt
MessageId ==
    \E t \in TasksAt("message_id") :
        /\ game' = update_game(game, [message_id |-> 1])
        /\ tasks' = tasks \ {t}
        /\ sent' = {}
        /\ UNCHANGED <<wallets, jobs>>

\* test_mode by the bot owner, to the reply
TestMode(u) ==
    /\ game.exists /\ u = CREATOR_ID
    /\ CanSpawn
    /\ game' = update_game(game, [test_mode |-> 1])
    /\ tasks' = tasks \cup {Plain("test_mode_status")}
    /\ sent' = {}
    /\ UNCHANGED <<wallets, jobs>>

\* test_mode, from update_game(chat_id, status="waiting")
TestModeStatus ==
    \E t \in TasksAt("test_mode_status") :
        /\ game' = update_game(game, [status |-> "waiting"])
        /\ tasks' = tasks \ {t}
        /\ sent' = {}
        /\ UNCHANGED <<wallets, jobs>>

\* float("nan"), the float that is neither <= nor > any number
NaN == -2

\* float(text) in milli-ETH; -1: ValueError
ParseAmount(text) ==
    CASE text = "0" -> 0
      [] text = "0.25" -> 250
      [] text = "100.5" -> 100500
      [] text = "nan" -> NaN
      [] OTHER -> -1

\* bet_amount <= 0 or bet_amount > 100
OutOfRange(bet_amount) ==
    bet_amount # NaN /\ (bet_amount <= 0 \/ bet_amount > MAX_BET * 1000)

AmountReply(g, u, text) ==
    IF ~g.exists THEN "NoGame"
    ELSE IF ~(g.status = "setting_bet" /\ u = g.creator_id) THEN "Ignored"
    ELSE IF ParseAmount(text) = -1 THEN "InvalidAmount"
    ELSE IF OutOfRange(ParseAmount(text)) THEN "InvalidAmount"
    ELSE "ok"

\* handle_message, to the new lobby message
HandleMessage(u, text) ==
    /\ AmountReply(game, u, text) = "ok"
    /\ CanSpawn
    /\ game' = update_game(game, [bet_amount |-> ParseAmount(text),
                                       status |-> "waiting"])
         /\ tasks' = tasks \cup {Plain("message_id")}
         /\ sent' = LobbyMsgs
         /\ UNCHANGED <<wallets, jobs>>

\* -------------------------------------------------------------------- join
\* join with "len(players) > max_players" for its capacity check
JoinReply_AboveCapacity(g, u, w) ==
    IF ~g.exists THEN "NoGame"
    ELSE IF u \in Range(g.players) THEN "AlreadyJoined"
    ELSE IF g.status # "waiting" THEN "NotAcceptingPlayers"
    ELSE IF Len(g.players) > Capacity(g) THEN "SessionFull"
    ELSE IF u \notin w /\ g.bet_amount # 0 THEN "WalletRequired"
    ELSE "ok"

\* join without its "user_id in players" check
JoinReply_NoAlreadyJoined(g, u, w) ==
    IF ~g.exists THEN "NoGame"
    ELSE IF g.status # "waiting" THEN "NotAcceptingPlayers"
    ELSE IF Len(g.players) >= Capacity(g) THEN "SessionFull"
    ELSE IF u \notin w /\ g.bet_amount # 0 THEN "WalletRequired"
    ELSE "ok"

\* join without its 'status != "waiting"' check
JoinReply_NoStatusCheck(g, u, w) ==
    IF ~g.exists THEN "NoGame"
    ELSE IF u \in Range(g.players) THEN "AlreadyJoined"
    ELSE IF Len(g.players) >= Capacity(g) THEN "SessionFull"
    ELSE IF u \notin w /\ g.bet_amount # 0 THEN "WalletRequired"
    ELSE "ok"

JoinReply(g, u, w) ==
    IF ~g.exists THEN "NoGame"
    ELSE IF u \in Range(g.players) THEN "AlreadyJoined"
    ELSE IF g.status # "waiting" THEN "NotAcceptingPlayers"
    ELSE IF Len(g.players) >= Capacity(g) THEN "SessionFull"
    ELSE IF u \notin w /\ g.bet_amount # 0 THEN "WalletRequired"
    ELSE "ok"

\* get_wallet as join reads it: the users for which "not wallet" is False.
\* With outcome "error" the lookup raises and get_wallet returns
\* (None, None), a tuple that is not empty.
get_wallet(outcome) ==
    {u \in Users : outcome = "error" \/ u \in wallets}

\* join by a handler that read the session before the join in flight
\* wrote it
Join_StaleRead(u, outcome) ==
    /\ JoinReply(game, u, get_wallet(outcome)) = "ok"
    /\ LET read == IF JoinTasks # {} /\ game.players # <<>>
                   THEN SubSeq(game.players, 1, Len(game.players) - 1)
                   ELSE game.players
           players == Append(read, u)
       IN
         /\ CanSpawnJoin
         /\ game' = update_game(game, [players |-> players])
         /\ tasks' = tasks \cup
                {Task("join_message_id", 0, Len(players) = Capacity(game),
                      NoGame, <<>>, <<>>)}
         /\ sent' = LobbyMsgs
         /\ UNCHANGED <<wallets, jobs>>

\* join, to the new lobby message; hit is len(players) == max_players of
\* the handler's own list
Join(u, outcome) ==
    /\ JoinReply(game, u, get_wallet(outcome)) = "ok"
    /\ LET players == Append(game.players, u) IN
         /\ CanSpawnJoin
         /\ game' = update_game(game, [players |-> players])
         /\ tasks' = tasks \cup
                {Task("join_message_id", 0, Len(players) = Capacity(game),
                      NoGame, <<>>, <<>>)}
         /\ sent' = LobbyMsgs
         /\ UNCHANGED <<wallets, jobs>>

\* join, from update_game(chat_id, message_id=...) to the bet prompt
JoinMessageId ==
    \E t \in TasksAt("join_message_id") :
        /\ game' = update_game(game, [message_id |-> 1])
        /\ tasks' = (tasks \ {t}) \cup
                (IF t.hit THEN {Plain("join_betting")} ELSE {})
        /\ sent' = BetPromptMsgs
        /\ UNCHANGED <<wallets, jobs>>

\* join, from update_game(chat_id, status="betting")
JoinBetting ==
    \E t \in TasksAt("join_betting") :
        /\ game' = update_game(game, [status |-> "betting"])
        /\ tasks' = tasks \ {t}
        /\ sent' = GameReadyMsgs
        /\ UNCHANGED <<wallets, jobs>>

\* --------------------------------------------------------------------- bet
\* bet_ without its 'status != "betting"' check
BetReply_NoStatusCheck(g, u) ==
    IF ~g.exists THEN "NoGame"
    ELSE IF u \in Bettors(g) THEN "DuplicateBet"
    ELSE "ok"

BetReply(g, u) ==
    IF ~g.exists THEN "NoGame"
    ELSE IF g.status # "betting" THEN "NotBetting"
    ELSE IF u \in Bettors(g) THEN "DuplicateBet"
    ELSE "ok"

\* bet_type.capitalize() if bet_type != "none" else "None"
Capitalize(bet_type) ==
    CASE bet_type = "player" -> "Player"
      [] bet_type = "banker" -> "Banker"
      [] bet_type = "tie" -> "Tie"
      [] OTHER -> "None"

\* bet_, to the reply that confirms the bet.  The handler goes on with its
\* own game, players and player_bets; when len(player_bets) differs from
\* len(players) it does nothing more.
Bet(u, bet_type) ==
    /\ BetReply(game, u) = "ok"
    /\ LET player_bets ==
                 [game.player_bets EXCEPT
                    ![u] = [choice |-> Capitalize(bet_type),
                            amount |-> game.bet_amount]]
             local == [game EXCEPT !.player_bets = player_bets]
             hit == Cardinality(Bettors(local)) = Len(local.players)
         IN  /\ hit => CanSpawn
             /\ game' = update_game(game, [player_bets |-> player_bets])
             /\ tasks' = tasks \cup
                    (IF hit THEN {Task("all_bet", 0, TRUE, local, <<>>, <<>>)} ELSE {})
             /\ sent' = {}
             /\ UNCHANGED <<wallets, jobs>>

\* proceed_to_results up to its first messages: update_game(status="playing")
\* and, by the handler's game_mode, the hands or the target and the cards.
\* With game_mode "simple" and no hands (the call of card_select_) the join
\* over player_cards raises TypeError and the handler ends there.
ProceedToResults(t, pc, bc) ==
    /\ game' = update_game(
                  IF pc = <<>> THEN game
                  ELSE update_game(game, [status |-> "playing",
                                          game_state |-> <<pc, bc>>]),
                  [status |-> "playing"])
    /\ IF t.g.game_mode = "simple"
       THEN IF pc = <<>>
            THEN /\ tasks' = tasks \ {t}
                 /\ sent' = {}
            ELSE /\ tasks' = (tasks \ {t}) \cup {Task("settle", 0, FALSE, t.g, pc, bc)}
                 /\ sent' = HandMsgs
       ELSE /\ tasks' = (tasks \ {t}) \cup {Task("settle", 0, FALSE, t.g, pc, bc)}
            /\ sent' = PvpResultMsgs(t.g.target_number)

\* bet_, from "if len(player_bets) == len(players)" of the last bet
AllBet ==
    \E t \in TasksAt("all_bet") :
        IF t.g.game_mode = "interactive"
        THEN \E target_number \in TargetDraws :
                /\ game' = update_game(game, [status |-> "card_selection",
                                              target_number |-> target_number])
                /\ tasks' = (tasks \ {t}) \cup {Plain("arm_timeout")}
                /\ sent' = CardPhaseMsgs(target_number)
                /\ UNCHANGED <<wallets, jobs>>
        ELSE \E c1, c2, c3, c4, d1, d2 \in DealRanks :
                LET hands == baccarat_third_card(<<c1, c2>>, <<c3, c4>>, d1, d2) IN
                /\ ProceedToResults(t, hands.pc, hands.bc)
                /\ UNCHANGED <<wallets, jobs>>

\* bet_, job_queue.run_once(timeout_card_selection, 30, ...) after the prompts
ArmTimeout ==
    \E t \in TasksAt("arm_timeout") :
        /\ jobs' = Min(jobs + 1, MaxJobs)
        /\ tasks' = tasks \ {t}
        /\ sent' = {}
        /\ UNCHANGED <<game, wallets>>

\* ------------------------------------------------------------- card select
valid_cards == {"A", "2", "3", "4", "5", "6", "7", "8", "9", "10", "J", "Q", "K"}

\* int(card_map.get(card, card))
CardRank(card) ==
    CASE card = "A" -> 1
      [] card = "J" -> 11
      [] card = "Q" -> 12
      [] card = "K" -> 13
      [] card = "2" -> 2
      [] card = "3" -> 3
      [] card = "4" -> 4
      [] card = "5" -> 5
      [] card = "6" -> 6
      [] card = "7" -> 7
      [] card = "8" -> 8
      [] card = "9" -> 9
      [] card = "10" -> 10
      [] card = "11" -> 11

CardReply(g, u, card) ==
    IF ~g.exists THEN "NoGame"
    ELSE IF g.status # "card_selection" THEN "NotCardSelection"
    ELSE IF u \in Choosers(g) THEN "DuplicateChoice"
    ELSE IF card \notin valid_cards THEN "InvalidCard"
    ELSE "ok"

\* card_select_, to its reply.  A pick for a session that is not in
\* card_selection deletes that session (after the reply).
CardSelect(u, card) ==
    LET r == CardReply(game, u, card) IN
    /\ r \in {"ok", "NotCardSelection"}
    /\ IF r = "ok"
       THEN LET card_choices == [game.card_choices EXCEPT ![u] = CardRank(card)]
                local == [game EXCEPT !.card_choices = card_choices]
                hit == Range(local.players) \subseteq Choosers(local)
            IN  /\ CanSpawnPick
                /\ game' = update_game(game, [card_choices |-> card_choices])
                /\ tasks' = tasks \cup
                       {Task("card_chosen", 0, hit, IF hit THEN local ELSE NoGame,
                             <<>>, <<>>)}
                /\ sent' = {}
                /\ UNCHANGED <<wallets, jobs>>
       ELSE /\ delete_game
            /\ sent' = {}
            /\ UNCHANGED <<wallets, tasks>>

\* card_select_, from the removal of the timeout jobs
CardChosen ==
    \E t \in TasksAt("card_chosen") :
        /\ jobs' = 0
        /\ IF t.hit
           THEN ProceedToResults(t, <<>>, <<>>)
           ELSE /\ tasks' = tasks \ {t}
                /\ sent' = {}
                /\ UNCHANGED game
        /\ UNCHANGED wallets

\* -------------------------------------------------------------- settlement
\* winners of proceed_to_results, as a set of user ids
Winners(t) ==
    IF t.g.game_mode = "simple"
    THEN LET result == determine_winner(t.pc, t.bc)
         IN  {u \in Bettors(t.g) : t.g.player_bets[u].choice = result}
    ELSE determine_pvp_winner(t.g.card_choices, t.g.target_number)

\* Ledger amounts are in micro-ETH, 1000 to the milli-ETH of a bet amount.
\* The payout of the Simple loop: float(bet["amount"]) * 1.95, * 2 or * 9
Multiplier(choice) ==
    CASE choice = "Banker" -> 1950
      [] choice = "Player" -> 2000
      [] choice = "Tie" -> 9000
      [] OTHER -> 0

\* process_pvp_payouts with the whole pool for its prize pool
PvpPayout_NoFee(bet_amount, bettors, winners) ==
    LET total_pool == bet_amount * 1000 * bettors
    IN  IF winners = 0 THEN 0 ELSE total_pool \div winners

\* payout_per_winner of process_pvp_payouts.  The code divides floats and
\* w3.to_wei() cuts the quotient to the unit of the Ledger; here the unit
\* is the micro-ETH.
PvpPayout(bet_amount, bettors, winners) ==
    LET total_pool == bet_amount * 1000 * bettors
        fee == (total_pool * 5) \div 100
        prize_pool == total_pool - fee
    IN  IF winners = 0 THEN 0 ELSE prize_pool \div winners

\* the users of the payout loop without the 'bet_amount != "0"' checks
Recipients_AnyAmount(t) == Winners(t)

\* the users the payout loop runs over: none in free play, and
\* process_pvp_payouts returns at once when there is no winner
Recipients(t) == IF t.g.bet_amount = 0 THEN {} ELSE Winners(t)

PayoutAmount(t, u) ==
    IF t.g.game_mode = "simple"
    THEN t.g.player_bets[u].amount * Multiplier(t.g.player_bets[u].choice)
    ELSE PvpPayout(t.g.bet_amount, Cardinality(Bettors(t.g)),
                   Cardinality(Winners(t)))

\* float(None) raises TypeError for a session without bet_amount that has
\* winners: in process_pvp_payouts before its try, and in the prize text
PoolRaises(t) == t.g.bet_amount = -1 /\ Winners(t) # {}

\* the recipients with a wallet at which a call of the loop raises before
\* the transaction is sent: a Ledger call (get_transaction_count,
\* balances().call(), build_transaction), float(None) of a bet without an
\* amount, w3.to_wei() of a nan amount
PayoutRaisers(t, w, ledger) ==
    {u \in Recipients(t) \cap w :
        \/ ledger[u] = "raises"
        \/ t.g.game_mode = "simple" /\ t.g.player_bets[u].amount \in {-1, NaN}
        \/ t.g.game_mode # "simple" /\ t.g.bet_amount = NaN}

\* The courses of the payout loop: the recipients it dealt with, and
\* whether it was left by an exception.  The loop follows the order of the
\* bets or the card choices, which the session of this model does not
\* keep: any set of recipients may come before the first that raises.
PayoutRuns(t, w, ledger) ==
    IF PayoutRaisers(t, w, ledger) = {}
    THEN {[done |-> Recipients(t), raised |-> FALSE]}
    ELSE {[done |-> S, raised |-> TRUE] :
             S \in SUBSET (Recipients(t) \ PayoutRaisers(t, w, ledger))}

\* what one pass of the loop tells its recipient: no withdrawal without a
\* wallet or with a contract balance too low, else a withdrawal that is
\* rejected or mined
PayoutNotice(t, u, w, ledger) ==
    IF u \notin w \/ ledger[u] = "low" THEN Notice("payout_failed", u, 0)
    ELSE IF ledger[u] = "rejected"
         THEN Notice("payout_rejected", u, PayoutAmount(t, u))
         ELSE Notice("payout", u, PayoutAmount(t, u))

\* the answers of the Ledger to one settlement; it is not called when
\* there is no recipient
Ledgers(t) ==
    IF Recipients(t) = {} THEN {[u \in Users |-> "ok"]}
    ELSE [Users -> LedgerOutcomes]

\* proceed_to_results, from the winners to the "Game Over" message.  An
\* exception in the Simple loop, or float(None), ends the handler; an
\* exception in process_pvp_payouts past its first lines is caught there
\* and reported to the group.  There is no refund: the block for it in
\* process_pvp_payouts is behind the return for "not winners".
Settle ==
    \E t \in TasksAt("settle") :
        \E ledger \in Ledgers(t) : \E run \in PayoutRuns(t, wallets, ledger) :
            LET notices == {PayoutNotice(t, u, wallets, ledger) : u \in run.done}
            IN  /\ IF t.g.game_mode # "simple" /\ PoolRaises(t)
                   THEN /\ tasks' = tasks \ {t}
                        /\ sent' = {}
                   ELSE IF t.g.game_mode = "simple" /\ (run.raised \/ PoolRaises(t))
                   THEN /\ tasks' = tasks \ {t}
                        /\ sent' = notices
                   ELSE /\ tasks' = (tasks \ {t}) \cup {Plain("results_delete")}
                        /\ sent' = notices \cup GameOverMsgs \cup
                                  (IF run.raised THEN PayoutErrorMsgs ELSE {})
                /\ UNCHANGED <<game, wallets, jobs>>

\* proceed_to_results, delete_game and the message of the next round
ResultsDelete ==
    \E t \in TasksAt("results_delete") :
        /\ delete_game
        /\ tasks' = (tasks \ {t}) \cup {Plain("results_create")}
        /\ sent' = WelcomeMsgs
        /\ UNCHANGED wallets

\* proceed_to_results, update_game(game_chat_id, **new_game_data)
ResultsCreate ==
    \E t \in TasksAt("results_create") :
        /\ game' = update_game(game, NewGameData(CREATOR_ID))
        /\ tasks' = tasks \ {t}
        /\ sent' = {}
        /\ UNCHANGED <<wallets, jobs>>

\* ------------------------------------------------------------ pending bets
\* The collection pending_bets, as the users it holds a stake for.  Only
\* add_pending_bet adds to it, and no handler calls add_pending_bet: the
\* collection is empty in every state.
pending_bets == {}

\* process_pending_bets: the users a deposit is submitted for, those of
\* the pending bets that have a wallet (the balance and the Ledger decide
\* whether the deposit is made)
process_pending_bets(pending, w) == pending \cap w

\* ------------------------------------------------------------ specification
Next ==
    \/ \E u \in Starters : Start(u)
    \/ StartCreate
    \/ \E u \in Users : StartPrivate(u)
    \/ \E u \in Users : Cancel(u)
    \/ \E u \in Users : Reset(u)
    \/ Timeout
    \/ \E mode \in {"simple", "interactive"} : GameMode(mode)
    \/ SetBet
    \/ SetBetStatus
    \/ FreePlay
    \/ MessageId
    \/ \E u \in Users : TestMode(u)
    \/ TestModeStatus
    \/ \E u \in Users, text \in TextInputs : HandleMessage(u, text)
    \/ \E u \in Users, outcome \in WalletLookups : Join(u, outcome)
    \/ JoinMessageId
    \/ JoinBetting
    \/ \E u \in Users, bet_type \in BetTypes : Bet(u, bet_type)
    \/ AllBet
    \/ ArmTimeout
    \/ \E u \in Users, card \in CardInputs : CardSelect(u, card)
    \/ CardChosen
    \/ Settle
    \/ ResultsDelete
    \/ ResultsCreate

Spec == Init /\ [][Next]_vars

\* --------------------------------------------- specification of settlement
\* The sessions that settlement is checked on: a test-mode session of
\* users 1 and 2, created by user 2, at the point where proceed_to_results
\* has written status "playing" and sent its first messages.  bet_ and
\* card_select_ take a bet and a card from any user: in a Simple session
\* the two bets that start the settlement are those of users 1 and 2 or of
\* users 1 and 3, and an Interactive session holds the bets and cards of
\* users 1 and 2, with or without a bet and a card of user 3.
SettleAmounts == {0, 250}
SettleChoices == {"Player", "Banker", "Tie"}
SettleGuestChoices == {"absent", "Banker"}
SettleCards == {1, 8, 13}
SettleGuestCards == {0} \cup SettleCards
SettleDeals == {1, 9}
SettleWallets == {InitialWallets, Users}

\* the session as the handler of the last bet or the last card pick holds it
SettleSession(mode, bet_amount, choices, guest, cards, guest_card, target_number) ==
    [NoGame EXCEPT
        !.exists = TRUE,
        !.status = IF mode = "simple" THEN "betting" ELSE "card_selection",
        !.game_mode = mode,
        !.test_mode = 1,
        !.bet_amount = bet_amount,
        !.players = <<1, 2>>,
        !.player_bets =
            [u \in Users |->
                IF u = 2 /\ mode = "simple" /\ guest # "absent" THEN NoBet
                ELSE IF u \in {1, 2}
                THEN [choice |-> IF mode = "simple" THEN choices[u] ELSE "None",
                      amount |-> bet_amount]
                ELSE IF guest = "absent" THEN NoBet
                ELSE [choice |-> IF mode = "simple" THEN guest ELSE "None",
                      amount |-> bet_amount]],
        !.card_choices =
            [u \in Users |->
                IF mode = "simple" THEN 0
                ELSE IF u \in {1, 2} THEN cards[u] ELSE guest_card],
        !.target_number = IF mode = "simple" THEN 0 ELSE target_number,
        !.creator_id = 2,
        !.message_id = 1]

\* the state after the first messages of proceed_to_results for session g
\* and the hands pc and bc
SettleStart(g, pc, bc) ==
    /\ game = update_game(g, IF g.game_mode = "simple"
                             THEN [status |-> "playing",
                                   game_state |-> <<pc, bc>>]
                             ELSE [status |-> "playing"])
    /\ wallets \in SettleWallets
    /\ jobs = 0
    /\ tasks = {Task("settle", 0, FALSE, g, pc, bc)}
    /\ sent = IF g.game_mode = "simple" THEN HandMsgs
              ELSE PvpResultMsgs(g.target_number)

SettleInit ==
    \E bet_amount \in SettleAmounts :
        \/ \E choices \in [{1, 2} -> SettleChoices], guest \in SettleGuestChoices,
              c1, c2, c3, c4, d1, d2 \in SettleDeals :
               LET hands == baccarat_third_card(<<c1, c2>>, <<c3, c4>>, d1, d2)
               IN  SettleStart(SettleSession("simple", bet_amount, choices, guest,
                                             [u \in {1, 2} |-> 0], 0, 0),
                               hands.pc, hands.bc)
        \/ \E cards \in [{1, 2} -> SettleCards], guest \in SettleGuestChoices,
              guest_card \in SettleGuestCards, target_number \in TargetDraws :
               SettleStart(SettleSession("interactive", bet_amount,
                                         [u \in {1, 2} |-> "None"], guest, cards,
                                         guest_card, target_number),
                           <<>>, <<>>)

SettleNext ==
    \/ Settle
    \/ ResultsDelete
    \/ ResultsCreate

SettleSpec == SettleInit /\ [][SettleNext]_vars

\* the handler of a settlement that can take a step takes it
SettleLive == SettleSpec /\ WF_vars(SettleNext)

\* --------------------------------------------- specification of the engine
\* The functions of the card engine, each called once on arguments of its
\* domain: a task holds the arguments of the call, and the step of the call
\* leaves what the function returns.  A hand has up to MaxHand cards of the
\* ranks of deal_card(); the banker's third card enters no decision and is
\* drawn from EngineBankerDraws.
MaxHand == 3
EngineRanks == 1..13
EngineBankerDraws == {1, 13}
EngineChoices == 0..13

Hands == UNION {[1..n -> EngineRanks] : n \in 1..MaxHand}

Call(k, g, pc, bc) == Task(k, 0, FALSE, g, pc, bc)

EngineInit ==
    /\ game = NoGame
    /\ wallets = InitialWallets
    /\ jobs = 0
    /\ sent = {}
    /\ \/ \E cards \in Hands :
             tasks = {Call("hand_total", NoGame, cards, <<>>)}
       \/ \E c1, c2, c3, c4 \in EngineRanks :
             tasks = {Call("baccarat_third_card", NoGame, <<c1, c2>>, <<c3, c4>>)}
       \/ \E card_choices \in [Users -> EngineChoices],
             target_number \in TARGET_MIN..TARGET_MAX :
             tasks = {Call("determine_pvp_winner",
                           [NoGame EXCEPT !.card_choices = card_choices,
                                          !.target_number = target_number],
                           <<>>, <<>>)}

\* hand_total(cards): the total is returned
HandTotal ==
    \E t \in TasksAt("hand_total") :
        /\ tasks' = {Call("hand_total_return", NoGame, t.pc, <<>>)}
        /\ sent' = {Msg("total", hand_total(t.pc))}
        /\ UNCHANGED <<game, wallets, jobs>>

\* baccarat_third_card(player_cards, banker_cards): the two hands are
\* returned with the flags player_draw and banker_draw
ThirdCard ==
    \E t \in TasksAt("baccarat_third_card") :
        \E d1 \in EngineRanks, d2 \in EngineBankerDraws :
            LET hands == baccarat_third_card(t.pc, t.bc, d1, d2) IN
            /\ tasks' = {Call("baccarat_third_card_return", NoGame,
                              hands.pc, hands.bc)}
            /\ sent' = (IF hands.player_draw THEN {Msg("player_draw", 0)} ELSE {})
                       \cup (IF hands.banker_draw THEN {Msg("banker_draw", 0)} ELSE {})
            /\ UNCHANGED <<game, wallets, jobs>>

\* determine_pvp_winner(card_choices, target_number): the winners are
\* returned, each with its total
PvpWinner ==
    \E t \in TasksAt("determine_pvp_winner") :
        LET winners == determine_pvp_winner(t.g.card_choices, t.g.target_number) IN
        /\ tasks' = {Call("determine_pvp_winner_return", t.g, <<>>, <<>>)}
        /\ sent' = {Notice("winner", u, card_value(t.g.card_choices[u]) % 10) :
                       u \in winners}
        /\ UNCHANGED <<game, wallets, jobs>>

EngineNext ==
    \/ HandTotal
    \/ ThirdCard
    \/ PvpWinner

EngineSpec == EngineInit /\ [][EngineNext]_vars

\* --------------------------------------- specification of the card selection
\* An Interactive test-mode session of users 1 and 2, created by user 2, as
\* bet_ leaves it when both have bet: in card_selection, the prompts sent
\* and the timeout armed.  Cards are picked, the timeout fires, and the
\* handler of the last pick settles the session.
PickAmounts == {0, 250}

PickSession(bet_amount, target_number) ==
    [NoGame EXCEPT
        !.exists = TRUE,
        !.status = "card_selection",
        !.game_mode = "interactive",
        !.test_mode = 1,
        !.bet_amount = bet_amount,
        !.players = <<1, 2>>,
        !.player_bets = [u \in Users |->
                            IF u \in {1, 2}
                            THEN [choice |-> "None", amount |-> bet_amount]
                            ELSE NoBet],
        !.target_number = target_number,
        !.creator_id = 2,
        !.message_id = 1]

PickInit ==
    /\ \E bet_amount \in PickAmounts, target_number \in TargetDraws :
          game = PickSession(bet_amount, target_number)
    /\ wallets \in SettleWallets
    /\ jobs = 1
    /\ tasks = {}
    /\ sent = {}

\* the steps of a handler in flight
PickHandlers ==
    \/ CardChosen
    \/ Settle
    \/ ResultsDelete
    \/ ResultsCreate

PickNext ==
    \/ \E u \in Users, card \in CardInputs : CardSelect(u, card)
    \/ Timeout
    \/ PickHandlers

PickSpec == PickInit /\ [][PickNext]_vars

\* a handler that can take a step takes it, and a timeout job that stays in
\* the queue runs; no user has to press a button
PickLive == PickSpec /\ WF_vars(PickHandlers) /\ WF_vars(Timeout)

\* ------------------------------------------- specification of a failing Store
\* bet_ when the write of the Store may fail: update_game catches the
\* exception of doc_ref.set, logs it and returns as after a write that was
\* made.  The session is a test-mode session of users 1 and 2, created by
\* user 2, in betting; here the reply that confirms a bet is recorded.
StoreOutcomes == {"ok", "error"}
StoreModes == {"simple", "interactive"}

\* update_game with the outcome of doc_ref.set
try_update_game(g, kwargs, outcome) ==
    IF outcome = "ok" THEN update_game(g, kwargs) ELSE g

StoreSession(mode, bet_amount) ==
    [NoGame EXCEPT
        !.exists = TRUE,
        !.status = "betting",
        !.game_mode = mode,
        !.test_mode = 1,
        !.bet_amount = bet_amount,
        !.players = <<1, 2>>,
        !.creator_id = 2,
        !.message_id = 1]

StoreInit ==
    /\ \E mode \in StoreModes, bet_amount \in PickAmounts :
          game = StoreSession(mode, bet_amount)
    /\ wallets \in SettleWallets
    /\ jobs = 0
    /\ tasks = {}
    /\ sent = {}

\* bet_, to the reply that confirms the bet, with the outcome of its write
BetStore(u, bet_type, outcome) ==
    /\ BetReply(game, u) = "ok"
    /\ LET player_bets ==
                 [game.player_bets EXCEPT
                    ![u] = [choice |-> Capitalize(bet_type),
                            amount |-> game.bet_amount]]
             local == [game EXCEPT !.player_bets = player_bets]
             hit == Cardinality(Bettors(local)) = Len(local.players)
         IN  /\ hit => CanSpawn
             /\ game' = try_update_game(game, [player_bets |-> player_bets], outcome)
             /\ tasks' = tasks \cup
                    (IF hit THEN {Task("all_bet", 0, TRUE, local, <<>>, <<>>)} ELSE {})
             /\ sent' = {Notice("bet_placed", u, 0)}
             /\ UNCHANGED <<wallets, jobs>>

StoreNext ==
    \/ \E u \in Users, bet_type \in BetTypes, outcome \in StoreOutcomes :
          BetStore(u, bet_type, outcome)
    \/ AllBet
    \/ ArmTimeout
    \/ Settle
    \/ ResultsDelete
    \/ ResultsCreate

StoreSpec == StoreInit /\ [][StoreNext]_vars

\* ---------------------------------------------------------------- properties
AtCapacity(g) == g.exists /\ Len(g.players) >= Capacity(g)
NoDuplicates(seq) == \A i, j \in 1..Len(seq) : seq[i] = seq[j] => i = j
LateStatuses == {"betting", "card_selection", "playing"}
LiveStatuses == {"waiting", "setting_bet"} \cup LateStatuses
StatusRank(s) ==
    CASE s \in {"waiting", "setting_bet"} -> 1
      [] s = "betting" -> 2
      [] s = "card_selection" -> 3
      [] s = "playing" -> 4
      [] OTHER -> 0

\* C1: in every reachable state the number of players is at most the
\* capacity of the session's current game mode and test mode.
C1_PlayersWithinCapacity ==
    game.exists => Len(game.players) <= Capacity(game)

\* C2, as stated: whenever players is at capacity, a join by a user who is
\* not in players fails with SessionFull.
C2_AtCapacityAlwaysSessionFull ==
    AtCapacity(game) =>
        \A u \in Users \ Range(game.players) :
            JoinReply(game, u, wallets) = "SessionFull"

\* C2: whenever players is at capacity a join by any user fails, with
\* AlreadyJoined for a user in players, else NotAcceptingPlayers when the
\* status is not waiting, else SessionFull; and no step from such a state
\* appends a user to players.
C2_JoinAtCapacityFails ==
    [][AtCapacity(game) =>
        /\ \A u \in Users :
              JoinReply(game, u, wallets) =
                  IF u \in Range(game.players) THEN "AlreadyJoined"
                  ELSE IF game.status # "waiting" THEN "NotAcceptingPlayers"
                  ELSE "SessionFull"
        /\ ~ \E u \in Users : game'.players = Append(game.players, u)]_vars

\* a waiting session at capacity with a user outside it, whose join is
\* refused as SessionFull
C2_Witness ==
    /\ AtCapacity(game)
    /\ game.players # <<>>
    /\ \E u \in Users : JoinReply(game, u, wallets) = "SessionFull"

\* C3: players never holds a user twice, and a join by a user in players
\* fails with AlreadyJoined.
C3_NoDuplicatePlayers ==
    /\ NoDuplicates(game.players)
    /\ \A u \in Range(game.players) : JoinReply(game, u, wallets) = "AlreadyJoined"

\* a waiting session below capacity with two players: only the
\* AlreadyJoined check refuses a second join by one of them
C3_Witness ==
    /\ game.exists /\ game.status = "waiting"
    /\ Len(game.players) = 2 /\ Len(game.players) < Capacity(game)
    /\ game.bet_amount = 0

\* C4: in every reachable state the users with a bet are players.
C4_BetsOnlyByPlayers ==
    Bettors(game) \subseteq Range(game.players)

\* C5: in every reachable state the users with a card choice are players.
C5_CardChoicesOnlyByPlayers ==
    Choosers(game) \subseteq Range(game.players)

\* C6: once the status is betting, card_selection or playing, no step that
\* leaves the session in place sets the status back to an earlier one.
C6_StatusMovesForward ==
    [][(game.exists /\ game.status \in LateStatuses /\ game'.exists) =>
          StatusRank(game'.status) >= StatusRank(game.status)]_vars

\* C7: whenever an Interactive session is in card_selection or playing its
\* target number lies in 1..9.
C7_TargetInRange ==
    (/\ game.exists
     /\ game.status \in {"card_selection", "playing"}
     /\ game.game_mode = "interactive")
        => game.target_number \in TARGET_MIN..TARGET_MAX

\* C8: a message that holds the target number is a result message of
\* settlement, sent by a handler whose session has a card choice of every
\* player.
C8_TargetOnlyAtSettlement ==
    \A m \in sent :
        m.target # 0 =>
            /\ m.kind \in {"results", "target_update"}
            /\ \E t \in TasksAt("settle") :
                  /\ m.target = t.g.target_number
                  /\ Range(t.g.players) \subseteq Choosers(t.g)

\* C9: /start is refused for every session with a live status; a /start
\* that goes ahead found no session and leaves none until it writes one,
\* and what it writes is a waiting session with bet amount 0 and no
\* players, bets or card choices.
C9_StartOnlyWithoutSession ==
    [][/\ (game.exists /\ game.status \in LiveStatuses) => StartReply(game) # "ok"
       /\ (TasksAt("start_create")' # {} /\ TasksAt("start_create") = {}) =>
              (~game.exists /\ game' = game)
       /\ (TasksAt("start_create") # {} /\ TasksAt("start_create")' = {}) =>
              \E t \in TasksAt("start_create") :
                  /\ game' = update_game(NoGame, NewGameData(t.u))
                  /\ game'.status = "waiting" /\ game'.bet_amount = 0
                  /\ game'.players = <<>>
                  /\ Bettors(game') = {} /\ Choosers(game') = {}]_vars

\* a session created by /start has gone on to card_selection, where /start
\* is refused
C9_Witness ==
    /\ game.exists /\ game.creator_id \in Starters
    /\ game.status = "card_selection"
    /\ StartReply(game) = "AlreadyRunning"

\* C10: a step that changes only the game mode of a session starts from
\* status waiting.
C10_ModeChangeOnlyInWaiting ==
    [][(/\ game.exists
        /\ game'.game_mode # game.game_mode
        /\ game' = [game EXCEPT !.game_mode = game'.game_mode])
          => game.status = "waiting"]_vars

\* C11: a step that sets the bet amount to an amount of a text (any value
\* but the "0" of free play and of a new session) starts in setting_bet,
\* ends in waiting, and the amount is positive and at most MAX_BET.
C11_AmountOnlyFromValidText ==
    [][(game'.exists /\ game'.bet_amount \notin {game.bet_amount, 0}) =>
          /\ game.exists /\ game.status = "setting_bet"
          /\ game'.status = "waiting"
          /\ game'.bet_amount \in 1..(MAX_BET * 1000)]_vars

\* C12, as stated: whenever the status of the session is not waiting, a join
\* by any user fails with NotAcceptingPlayers.
C12_OutsideWaitingNotAccepting ==
    (game.exists /\ game.status # "waiting") =>
        \A u \in Users : JoinReply(game, u, wallets) = "NotAcceptingPlayers"

\* C12: whenever the status of the session is not waiting, a join fails,
\* with AlreadyJoined for a user in players and NotAcceptingPlayers for
\* every other user, and no step from such a state appends a user to
\* players.
C12_JoinOutsideWaitingFails ==
    [][(game.exists /\ game.status # "waiting") =>
        /\ \A u \in Users :
              JoinReply(game, u, wallets) =
                  IF u \in Range(game.players) THEN "AlreadyJoined"
                  ELSE "NotAcceptingPlayers"
        /\ ~ \E u \in Users : game'.players = Append(game.players, u)]_vars

\* a session in setting_bet with a player, room for more and a user with a
\* wallet outside it: only the status check refuses that user's join
C12_Witness ==
    /\ game.exists /\ game.status = "setting_bet"
    /\ game.players # <<>> /\ Len(game.players) < Capacity(game)
    /\ \E u \in wallets \ Range(game.players) :
          JoinReply(game, u, wallets) = "NotAcceptingPlayers"

\* C13: a step that ends in betting leaves at least as many players as the
\* capacity, and a step that moves the session into betting starts in
\* waiting and ends with exactly as many players as the capacity.
C13_BettingOnlyAtCapacity ==
    [][(game'.exists /\ game'.status = "betting") =>
          /\ Len(game'.players) >= Capacity(game')
          /\ game.status # "betting" =>
                /\ game.exists /\ game.status = "waiting"
                /\ Len(game'.players) = Capacity(game')]_vars

\* C14: no step appends to the players of a session whose bet amount is
\* not "0" a user who has no wallet.
C14_PaidJoinNeedsWallet ==
    [][\A u \in Users \ wallets :
          (game.exists /\ game.bet_amount # 0) =>
              game'.players # Append(game.players, u)]_vars

\* C15: for a user whose bet is recorded no bet, and for a user whose card
\* is recorded no card pick, changes the session, the jobs or the handlers
\* in flight.
C15_SecondSubmissionChangesNothing ==
    \A u \in Users :
        /\ u \in Bettors(game) =>
              \A bet_type \in BetTypes : ~ ENABLED Bet(u, bet_type)
        /\ u \in Choosers(game) =>
              \A card \in CardInputs : ~ ENABLED CardSelect(u, card)

\* C16: when there is no session or its status is not betting, no bet is
\* accepted (a bet changes nothing), and no step adds a bet to the session.
C16_BetOnlyInBetting ==
    [][(~game.exists \/ game.status # "betting") =>
          /\ \A u \in Users, bet_type \in BetTypes :
                /\ BetReply(game, u) \in {"NoGame", "NotBetting"}
                /\ ~ ENABLED Bet(u, bet_type)
          /\ Bettors(game') \subseteq Bettors(game)]_vars

\* a session that went on from betting to card_selection with the bets of
\* its players recorded, and a user who has not bet
C16_Witness ==
    /\ game.exists /\ game.status = "card_selection"
    /\ Bettors(game) # {} /\ Bettors(game) # Users
    /\ \A u \in Users \ Bettors(game) : BetReply(game, u) = "NotBetting"

\* C17: for a session whose status is not card_selection no card pick
\* changes the session, the jobs or the handlers in flight.
C17_LatePickChangesNothing ==
    (game.exists /\ game.status # "card_selection") =>
        \A u \in Users, card \in CardInputs : ~ ENABLED CardSelect(u, card)

\* C18: a step that takes a session from betting to card_selection or
\* playing starts with a bet of every player recorded; it ends in
\* card_selection, with the card prompts sent, when the session is
\* Interactive, and in playing, with two or three cards dealt to each hand,
\* when it is Simple.
C18_TransitionWhenBetsComplete ==
    [][(/\ game.exists /\ game.status = "betting"
        /\ game'.exists /\ game'.status \in {"card_selection", "playing"}) =>
          /\ Range(game.players) \subseteq Bettors(game)
          /\ game.game_mode \in {"interactive", "simple"}
          /\ game.game_mode = "interactive" =>
                /\ game'.status = "card_selection"
                /\ sent' = CardPhaseMsgs(game'.target_number)
          /\ game.game_mode = "simple" =>
                /\ game'.status = "playing"
                /\ Len(game'.game_state) = 2
                /\ \A i \in 1..2 : Len(game'.game_state[i]) \in 2..3]_vars

\* C19: when the handler of a card pick that was not the last required one
\* goes on after its reply, the timeout jobs of the chat stay as they are.
C19_TimeoutKeptUntilLastChoice ==
    [][\A t \in TasksAt("card_chosen") :
          (~t.hit /\ t \notin tasks') => jobs' = jobs]_vars

C21_TimeoutOnlyInCardSelection ==
    [][/\ (sent' = TimeoutMsgs) =>
              /\ game.exists /\ game.status = "card_selection"
              /\ ~game'.exists /\ jobs' = 0
       /\ (Timeout /\ ~(game.exists /\ game.status = "card_selection")) =>
              /\ game' = game /\ wallets' = wallets /\ tasks' = tasks
              /\ sent' = {}]_vars

\* the timeout has deleted a session in card_selection and announced it
C21_Witness ==
    /\ ~game.exists /\ jobs = 0
    /\ sent = TimeoutMsgs

\* C22: for a session with players, the timeout does not delete the session
\* and announce a cancellation once a card choice of every player is
\* recorded, and the step after the timeout deleted the session is not the
\* handler of the last card pick going on to the results.
C22_TimeoutXorSettlement ==
    [][/\ (sent' = TimeoutMsgs /\ game.players # <<>>) =>
              ~(Range(game.players) \subseteq Choosers(game))
       /\ (sent = TimeoutMsgs /\ ~game.exists) =>
              ~ \E t \in TasksAt("card_chosen") :
                    t.hit /\ t.g.players # <<>> /\ t \notin tasks']_vars

\* the notices of the payout loops, and the users a set of messages holds
\* such a notice for
PayoutKinds == {"payout", "payout_rejected", "payout_failed"}
WithdrawalKinds == {"payout", "payout_rejected"}
Attempted(msgs) == {m.user : m \in {n \in msgs : n.kind \in PayoutKinds}}

\* C23: when the handler settles a paid Simple session whose hands give
\* the outcome W, the payout loop reaches every bettor whose choice is W
\* (all of them have their notice, but for the one a pass may have ended
\* at), nobody else is sent anything, and every withdrawal is of 2 x the
\* stake for Player, 1.95 x for Banker and 9 x for Tie.
C23_SimplePayoutIffChoiceWins ==
    [][\A t \in TasksAt("settle") :
          (t \notin tasks' /\ t.g.game_mode = "simple" /\ t.g.bet_amount # 0) =>
              LET W == determine_winner(t.pc, t.bc)
                  chose_W == {u \in Bettors(t.g) : t.g.player_bets[u].choice = W}
              IN
              /\ Attempted(sent') \subseteq chose_W
              /\ Cardinality(chose_W \ Attempted(sent')) <= 1
              /\ \A m \in sent' :
                    /\ m.user # 0 => m.kind \in PayoutKinds
                    /\ m.kind \in WithdrawalKinds =>
                          m.amount = t.g.player_bets[m.user].amount *
                                        (IF W = "Player" THEN 2000
                                         ELSE IF W = "Banker" THEN 1950
                                         ELSE 9000)]_vars

C25_RefundWhenNoWinner ==
    [][\A t \in TasksAt("settle") :
          (/\ t \notin tasks' /\ t.g.game_mode = "interactive" /\ t.g.bet_amount > 0
           /\ determine_pvp_winner(t.g.card_choices, t.g.target_number) = {}) =>
              \A u \in Bettors(t.g) :
                 \E m \in sent' :
                    /\ m.user = u
                    /\ m.kind \in {"refund", "refund_rejected", "refund_failed"}
                    /\ m.kind = "refund" => m.amount = t.g.bet_amount * 950]_vars

\* C26: when the handler settles a session, in either mode, the payout
\* loop reaches every recipient (all of them have their notice, but for
\* the one recipient a pass may have failed at), and the handler goes on
\* to the "Game Over" message and the deletion of the session.
C26_FailureIsolatedPerRecipient ==
    [][\A t \in TasksAt("settle") :
          (t \notin tasks' /\ t.g.bet_amount >= 0) =>
              LET winners ==
                      IF t.g.game_mode = "simple"
                      THEN {u \in Bettors(t.g) :
                               t.g.player_bets[u].choice = determine_winner(t.pc, t.bc)}
                      ELSE determine_pvp_winner(t.g.card_choices, t.g.target_number)
                  recipients == IF t.g.bet_amount = 0 THEN {} ELSE winners
              IN  /\ Cardinality(recipients \ Attempted(sent')) <= 1
                  /\ GameOverMsgs \subseteq sent'
                  /\ TasksAt("results_delete")' # {}]_vars

\* a fresh session: waiting, no players, bets or card choices, bet amount 0
FreshWaiting(g) ==
    /\ g.exists /\ g.status = "waiting"
    /\ g.players = <<>> /\ Bettors(g) = {} /\ Choosers(g) = {}
    /\ g.bet_amount = 0

\* C27: a session in playing is eventually replaced by a fresh waiting
\* session of the chat.
C27_PlayingLeadsToFreshSession ==
    (game.exists /\ game.status = "playing") ~> FreshWaiting(game)

\* C29: no step submits a withdrawal to the Ledger while the stored status
\* of the session is playing or an earlier status.
C29_SettledBeforePayouts ==
    [][(\E m \in sent' : m.kind \in WithdrawalKinds) =>
          ~(game.exists /\ game.status \in LiveStatuses)]_vars

\* C30: a step that leaves a session record where there was none is the
\* creation of a new session: the record is a whole waiting session, as
\* /start and the end of a settlement write it.
C30_RecordOnlyFromNewSession ==
    [][(~game.exists /\ game'.exists) =>
          \E creator \in Users : game' = update_game(NoGame, NewGameData(creator))]_vars

\* C28: a step that changes the players of a session appends one user to
\* the players as they are stored, so that no join is lost; its handler
\* goes on to write status betting exactly when the stored list has
\* reached the capacity, and then the session takes no further join.  A step
\* that changes the bets of a session adds the bet of one user to the bets
\* as they are stored, and its handler goes on to the next phase exactly
\* when there are as many bets as players.
C28_JoinsAndBetsSerialized ==
    [][/\ (/\ game.exists /\ game'.exists
           /\ game'.players # game.players /\ game'.players # <<>>) =>
              \E u \in Users \ Range(game.players) :
                 /\ game'.players = Append(game.players, u)
                 /\ LET hit == Len(game'.players) = Capacity(game) IN
                       /\ Task("join_message_id", 0, hit, NoGame, <<>>, <<>>) \in tasks'
                       /\ hit => \A v \in Users :
                                    JoinReply(game', v, Users) \in {"AlreadyJoined", "SessionFull"}
       /\ (/\ game.exists /\ game'.exists
           /\ game'.player_bets # game.player_bets /\ Bettors(game') # {}) =>
              \E u \in Users \ Bettors(game) :
                 /\ game'.player_bets =
                        [game.player_bets EXCEPT ![u] = game'.player_bets[u]]
                 /\ (Cardinality(Bettors(game')) = Len(game.players)) <=>
                        (TasksAt("all_bet")' \ TasksAt("all_bet") # {})]_vars

\* two joins are in flight at once and both users are in players
C28_Witness ==
    /\ game.exists /\ Len(game.players) = 2
    /\ Cardinality(JoinTasks) = 2
    /\ \E t \in TasksAt("join_message_id") : t.hit
    /\ \E t \in TasksAt("join_message_id") : ~t.hit

\* cardValue as the card table states it, and the sum of it over the cards
\* at the indices 1..n of a hand
CardValueTable(r) ==
    CASE r = 1 -> 1
      [] r \in 2..9 -> r
      [] r \in 10..13 -> 0

RECURSIVE TableSum(_, _)
TableSum(cards, n) ==
    IF n = 0 THEN 0 ELSE CardValueTable(cards[n]) + TableSum(cards, n - 1)

\* C33: for every hand of one card or more, of ranks 1..13, the total that
\* hand_total returns is in 0..9 and is the sum of the card values of the
\* table, modulo 10.
C33_HandTotalIsSumMod10 ==
    \A t \in TasksAt("hand_total_return") :
        /\ Len(t.pc) >= 1
        /\ \E m \in sent :
              /\ sent = {m}
              /\ m.kind = "total"
              /\ m.target \in 0..9
              /\ m.target = TableSum(t.pc, Len(t.pc)) % 10

\* hand_total has returned 0 for three cards whose values add up to 20
C33_Witness ==
    /\ TasksAt("hand_total_return") # {}
    /\ \E t \in TasksAt("hand_total_return") :
          Len(t.pc) = 3 /\ TableSum(t.pc, 3) = 20
    /\ sent = {Msg("total", 0)}

\* the banker's lookup table of the tableau: the pairs of the banker's
\* total and the value of the player's third card at which the banker draws
BankerTable ==
    {<<b, v>> : b \in 0..2, v \in 0..9}
    \cup {<<3, v>> : v \in (0..9) \ {8}}
    \cup {<<4, v>> : v \in 2..7}
    \cup {<<5, v>> : v \in 4..7}
    \cup {<<6, v>> : v \in 6..7}

\* C34: for every pair of two-card hands and every card drawn,
\* baccarat_third_card follows the tableau: with a total of 8 or 9 in
\* either hand both hands come back as they were and both flags are false;
\* otherwise the player draws exactly when the player's total is at most
\* 5, and the banker draws by the lookup table when the player drew, or
\* exactly when the banker's total is at most 5 when the player did not;
\* a hand that draws comes back with a third card, the other with two.
C34_ThirdCardFollowsTableau ==
    [][\A t \in TasksAt("baccarat_third_card") :
          t \notin tasks' =>
             \E r \in tasks' :
                LET player_total == TableSum(t.pc, 2) % 10
                    banker_total == TableSum(t.bc, 2) % 10
                    player_drew == Msg("player_draw", 0) \in sent'
                    banker_drew == Msg("banker_draw", 0) \in sent'
                IN  /\ tasks' = {r}
                    /\ Len(r.pc) = (IF player_drew THEN 3 ELSE 2)
                    /\ Len(r.bc) = (IF banker_drew THEN 3 ELSE 2)
                    /\ SubSeq(r.pc, 1, 2) = t.pc
                    /\ SubSeq(r.bc, 1, 2) = t.bc
                    /\ IF player_total >= 8 \/ banker_total >= 8
                       THEN ~player_drew /\ ~banker_drew
                       ELSE /\ player_drew <=> player_total <= 5
                            /\ banker_drew <=>
                                  IF player_drew
                                  THEN <<banker_total, CardValueTable(r.pc[3])>>
                                           \in BankerTable
                                  ELSE banker_total <= 5]_vars

\* the player drew an 8 and the banker, on a total of 3, stood
C34_Witness ==
    \E r \in TasksAt("baccarat_third_card_return") :
        /\ Len(r.pc) = 3 /\ CardValueTable(r.pc[3]) = 8
        /\ Len(r.bc) = 2 /\ TableSum(r.bc, 2) % 10 = 3
        /\ sent = {Msg("player_draw", 0)}

\* C35: determine_pvp_winner returns as winners exactly the users whose
\* total, the value of the card chosen modulo 10, is nearest to the target
\* (all the users at the least distance win), and no winner when every
\* total is 0, whatever the target; for target 7 and the choices 8 and 5
\* of two users the winner is the user who chose 8.
C35_PvpWinnersAreNearestToTarget ==
    [][\A t \in TasksAt("determine_pvp_winner") :
          t \notin tasks' =>
             LET chosen == {u \in Users : t.g.card_choices[u] # 0}
                 total == [u \in chosen |-> CardValueTable(t.g.card_choices[u]) % 10]
                 distance == [u \in chosen |-> Abs(total[u] - t.g.target_number)]
                 nearest == {u \in chosen : \A v \in chosen : distance[u] <= distance[v]}
                 winners == {m.user : m \in sent'}
             IN  /\ \A m \in sent' : m.kind = "winner" /\ m.amount = total[m.user]
                 /\ winners = IF \A u \in chosen : total[u] = 0 THEN {} ELSE nearest
                 /\ (/\ t.g.target_number = 7
                     /\ t.g.card_choices = [u \in Users |->
                                               IF u = 1 THEN 8 ELSE IF u = 2 THEN 5 ELSE 0])
                       => winners = {1}]_vars

\* determine_pvp_winner has returned user 1, with total 8, for target 7
\* and the choices 8 of user 1 and 5 of user 2
C35_Witness ==
    /\ \E t \in TasksAt("determine_pvp_winner_return") :
          /\ t.g.target_number = 7
          /\ t.g.card_choices = [u \in Users |->
                                    IF u = 1 THEN 8 ELSE IF u = 2 THEN 5 ELSE 0]
    /\ sent = {Notice("winner", 1, 8)}

\* the messages by which proceed_to_results announces the results
ResultKinds == {"results", "final_hands"}

\* C36: the results of a session are announced once: no step announces
\* results for a stored session that is in playing already, that is, whose
\* results another handler has announced, and no two handlers are at the
\* payouts at a time.
C36_SettlementAtMostOnce ==
    [][/\ (game.exists /\ game.status = "playing") =>
              ~ \E m \in sent' : m.kind \in ResultKinds
       /\ Cardinality(TasksAt("settle")') <= 1]_vars

\* C37: in every reachable state of a session with a bet amount above 0,
\* every user in players has a wallet.
C37_PlayersOfPaidSessionHaveWallets ==
    (game.exists /\ game.bet_amount > 0) => Range(game.players) \subseteq wallets

\* C38: a session in card_selection eventually either is settled (its
\* status becomes playing) or is deleted, when handlers in flight go on
\* and an armed timeout that is not cancelled fires.
C38_CardSelectionEnds ==
    (game.exists /\ game.status = "card_selection")
        ~> (~game.exists \/ game.status = "playing")

\* C39: the timeout that deletes a session in card_selection was armed for
\* that session.  The handler that moves a session to card_selection arms
\* its timeout as its last step, so a timeout that deletes a session whose
\* handler has not come to that step was armed for an earlier session: no
\* step does that to a session that /start created (one with a creator).
C39_TimeoutDeletesOnlyItsSession ==
    [][(/\ game.exists /\ game.status = "card_selection" /\ game.creator_id # 0
        /\ ~game'.exists /\ sent' = TimeoutMsgs) =>
           TasksAt("arm_timeout") = {}]_vars

\* C40: the settlement of a free-play session, in either mode, issues no
\* withdrawal and tells no user of a payout: neither when the handler's
\* session has bet amount 0, nor when the stored session has.
C40_FreePlayIssuesNoLedgerCall ==
    [][/\ \A t \in TasksAt("settle") :
             (t \notin tasks' /\ t.g.bet_amount = 0) =>
                 ~ \E m \in sent' : m.kind \in PayoutKinds
       /\ (game.exists /\ game.bet_amount = 0) =>
             ~ \E m \in sent' : m.kind \in PayoutKinds]_vars

\* a free-play Interactive session with a winner has been settled: the
\* game is over and nothing was paid
C40_Witness ==
    /\ game.exists /\ game.bet_amount = 0 /\ game.game_mode = "interactive"
    /\ determine_pvp_winner(game.card_choices, game.target_number) # {}
    /\ TasksAt("results_delete") # {}
    /\ sent = GameOverMsgs

\* C31: a bet whose write to the Store failed is a failed bet: a step that
\* tells a user that the bet is placed has stored the bet of that user,
\* and a handler goes on to the next phase only on bets that are stored.
C31_FailedWriteFailsTheBet ==
    [][/\ \A m \in sent' : m.kind = "bet_placed" => m.user \in Bettors(game')
       /\ \A t \in TasksAt("all_bet")' \ TasksAt("all_bet") :
             Bettors(t.g) \subseteq Bettors(game')]_vars

\* C32: in a session with a bet amount above 0, a step records the bet of
\* a user only when a deposit of the stake was submitted for that user,
\* and a settlement submits a withdrawal only when a deposit was submitted
\* for every bettor of the session.
C32_BetOnlyAfterDeposit ==
    [][/\ (game.exists /\ game'.exists /\ game.bet_amount > 0) =>
             \A u \in Bettors(game') \ Bettors(game) :
                u \in process_pending_bets(pending_bets, wallets)
       /\ \A t \in TasksAt("settle") :
             (/\ t \notin tasks' /\ t.g.bet_amount > 0
              /\ \E m \in sent' : m.kind \in WithdrawalKinds) =>
                 Bettors(t.g) \subseteq process_pending_bets(pending_bets, wallets)]_vars

====
